---- MODULE Spec2Model ----
(***************************************************************************)
(* A model of the Ansible module source_control/gitflow.py.                *)
(*                                                                         *)
(* Python strings are sequences of one-character strings, so that          *)
(* str.format, splitlines, startswith, replace, strip and the substring    *)
(* test are computed character by character, the way the code computes     *)
(* them.  Python's None is the one-element sequence None, which no string  *)
(* equals (its element is not a single character).                         *)
(*                                                                         *)
(* One behaviour is one task (fixed arguments) run against one repository, *)
(* then run again with the same arguments, up to MaxRuns times.  The       *)
(* repository holds the branches of the task's workflow command; the       *)
(* external tool's answers (exit code, stderr) are chosen freely.          *)
(***************************************************************************)
EXTENDS Integers, Sequences, FiniteSets, TLC

VARIABLES
    args,      \* the task's arguments as the playbook gives them
    params,    \* module.params: the arguments after AnsibleModule's defaults
    repo,      \* the repository, as the external tool sees it
    pc,        \* where main() is: "start", "main", "run", "done"
    cmd,       \* _gitflow_branch's local cmd
    branches,  \* _gitflow_branch's local branches
    procs,     \* the processes run_command spawned in this run, in order
    result,    \* what exit_json / fail_json reported
    run,       \* which run of the task this is (1..MaxRuns)
    prevOk     \* whether the previous run of the task ended in exit_json

vars == <<args, params, repo, pc, cmd, branches, procs, result, run, prevOk>>

\* How many times the same task is run against the repository.
MaxRuns == 2

---------------------------------------------------------------------------
\* String literals of the source.

None == <<"<None>">>
S_None == <<"N","o","n","e">>
S_empty == <<>>
GIT_EXECUTABLE == <<"g","i","t">>
S_init == <<"i","n","i","t">>
S_feature == <<"f","e","a","t","u","r","e">>
S_release == <<"r","e","l","e","a","s","e">>
S_hotfix == <<"h","o","t","f","i","x">>
S_version == <<"v","e","r","s","i","o","n">>
S_support == <<"s","u","p","p","o","r","t">>
S_start == <<"s","t","a","r","t">>
S_finish == <<"f","i","n","i","s","h">>
S_list == <<"l","i","s","t">>
S_publish == <<"p","u","b","l","i","s","h">>
S_track == <<"t","r","a","c","k">>
S_rebase == <<"r","e","b","a","s","e">>
S_checkout == <<"c","h","e","c","k","o","u","t">>
S_pull == <<"p","u","l","l">>
S_flow == <<"f","l","o","w">>
S_marker == <<"*"," ">>
S_already == <<"A","l","r","e","a","d","y"," ","i","n","i","t","i","a","l","i","z","e","d">>

\* '{0} flow version'
T_version == <<"{","0","}"," ","f","l","o","w"," ","v","e","r","s","i","o","n">>
\* '{0} flow init -d'
T_init == <<"{","0","}"," ","f","l","o","w"," ","i","n","i","t"," ","-","d">>
\* '{0} flow {1} list'
T_list == <<"{","0","}"," ","f","l","o","w"," ","{","1","}"," ","l","i","s","t">>
\* '{0} flow {1} {2} {3}'
T_default == <<"{","0","}"," ","f","l","o","w"," ","{","1","}"," ","{","2","}"," ","{","3","}">>
\* '{0} flow {1} {2} {3}', the template assigned under the (hotfix, start) test
T_hotfix_start == <<"{","0","}"," ","f","l","o","w"," ","{","1","}"," ","{","2","}"," ","{","3","}">>
\* '{0} flow {1} {4} {2}'
T_pull == <<"{","0","}"," ","f","l","o","w"," ","{","1","}"," ","{","4","}"," ","{","2","}">>

\* argument_spec: command choices and action choices
CommandChoices == {S_init, S_feature, S_release, S_hotfix, S_version}
ActionChoices == {S_start, S_finish, S_publish, S_list, S_rebase, S_checkout, S_pull}
\* the commands main() dispatches to _gitflow_branch
BranchCommands == {S_feature, S_release, S_hotfix, S_support}

---------------------------------------------------------------------------
\* Python's string operations.

Whitespace == {" ", "\n", "\t"}
DigitVal == ("0" :> 0) @@ ("1" :> 1) @@ ("2" :> 2) @@ ("3" :> 3) @@ ("4" :> 4) @@ ("5" :> 5)

\* str(v), as str.format renders a positional argument
Str(v) == IF v = None THEN S_None ELSE v

Drop(s, n) == SubSeq(s, n + 1, Len(s))

\* template.format(*fmtargs): every '{d}' becomes str(fmtargs[d])
RECURSIVE Format(_, _)
Format(t, fmtargs) ==
    IF t = <<>> THEN <<>>
    ELSE IF Len(t) >= 3 /\ t[1] = "{" /\ t[2] \in DOMAIN DigitVal /\ t[3] = "}"
         THEN Str(fmtargs[DigitVal[t[2]] + 1]) \o Format(Drop(t, 3), fmtargs)
         ELSE <<t[1]>> \o Format(Drop(t, 1), fmtargs)

\* s.startswith(p)
StartsWith(s, p) == Len(s) >= Len(p) /\ SubSeq(s, 1, Len(p)) = p

\* a variant of Contains: equality where the code tests for a substring
Contains_Equal(s, p) == s = p

\* p in s  (substring test, p non-empty)
RECURSIVE Contains(_, _)
Contains(s, p) ==
    IF Len(s) < Len(p) THEN FALSE
    ELSE StartsWith(s, p) \/ Contains(Drop(s, 1), p)

\* s.replace(p, '')
RECURSIVE Remove(_, _)
Remove(s, p) ==
    IF s = <<>> THEN <<>>
    ELSE IF StartsWith(s, p) THEN Remove(Drop(s, Len(p)), p)
         ELSE <<s[1]>> \o Remove(Drop(s, 1), p)

RECURSIVE LStrip(_)
LStrip(s) == IF s # <<>> /\ s[1] \in Whitespace THEN LStrip(Drop(s, 1)) ELSE s
RECURSIVE RStrip(_)
RStrip(s) ==
    IF s # <<>> /\ s[Len(s)] \in Whitespace THEN RStrip(SubSeq(s, 1, Len(s) - 1)) ELSE s
\* s.strip()
Strip(s) == RStrip(LStrip(s))

\* s.splitlines(): the lines of s, a final line break opening no line
RECURSIVE SplitAcc(_, _, _)
SplitAcc(s, cur, acc) ==
    IF s = <<>> THEN (IF cur = <<>> THEN acc ELSE Append(acc, cur))
    ELSE IF s[1] = "\n" THEN SplitAcc(Drop(s, 1), <<>>, Append(acc, cur))
         ELSE SplitAcc(Drop(s, 1), Append(cur, s[1]), acc)
SplitLines(s) == SplitAcc(s, <<>>, <<>>)

\* x in lst
In(x, lst) == \E i \in 1..Len(lst) : lst[i] = x

RECURSIVE Filter(_, _)
Filter(lst, p) ==
    IF lst = <<>> THEN <<>>
    ELSE (IF StartsWith(lst[1], p) THEN <<lst[1]>> ELSE <<>>) \o Filter(Tail(lst), p)

---------------------------------------------------------------------------
\* The pure functions of the module.

\* _get_cmd: the text of the command to execute.  The first test compares
\* the pair (template, action) with ('hotfix', 'start').
_get_cmd(git, command, action, name, base, remote) ==
    LET cmd0 == T_default
        cmd1 == IF <<cmd0, action>> = <<S_hotfix, S_start>> THEN T_hotfix_start
                ELSE IF action = S_pull THEN T_pull
                ELSE cmd0
    IN  Format(cmd1, <<git, command, action, name, base, remote>>)

\* _list, after run_command: the branches named by the tool's output
_list(out) ==
    LET lst == SplitLines(out)
        current == Filter(lst, S_marker)
    IN  [list |-> [i \in 1..Len(lst) |-> Strip(Remove(lst[i], S_marker))],
         current |-> [i \in 1..Len(current) |-> Strip(Remove(current[i], S_marker))]]

\* a variant of _exit_if_unchanged without the test for 'start'
_exit_if_unchanged_NoStart(brs, action, name) ==
    \/ (action = S_finish /\ ~In(name, brs.list))
    \/ ((action = S_checkout) /\ In(name, brs.current))

\* a variant of _exit_if_unchanged whose test for 'finish' lost its `not`
_exit_if_unchanged_FinishIn(brs, action, name) ==
    \/ (action = S_start /\ In(name, brs.list))
    \/ (action = S_finish /\ In(name, brs.list))
    \/ ((action = S_checkout) /\ In(name, brs.current))

\* _exit_if_unchanged's condition
_exit_if_unchanged(brs, action, name) ==
    \/ (action = S_start /\ In(name, brs.list))
    \/ (action = S_finish /\ ~In(name, brs.list))
    \/ ((action = S_checkout) /\ In(name, brs.current))

\* AnsibleModule(argument_spec=...): command is required and is one of its
\* choices; action, when given, is one of its choices.
ArgSpecOk(a) ==
    /\ a.command # None
    /\ a.command \in CommandChoices
    /\ (a.action # None => a.action \in ActionChoices)

\* module.params: the defaults of argument_spec filled in
WithDefaults(a) ==
    [a EXCEPT !.executable = IF @ = None THEN GIT_EXECUTABLE ELSE @,
              !.remote = IF @ = None THEN S_empty ELSE @,
              !.base = IF @ = None THEN S_empty ELSE @]

---------------------------------------------------------------------------
\* Results.  keys is the set of keyword arguments the call was given; a
\* field whose key is absent holds a filler.

NoInventory == [list |-> <<>>, current |-> <<>>]
NoResult ==
    [kind |-> "none", keys |-> {}, changed |-> FALSE, command |-> None,
     msg |-> None, version |-> None, branches |-> NoInventory]
\* a variant of FailJson that reports the stderr without the command
FailJson_NoCommand(err, c) ==
    [NoResult EXCEPT !.kind = "fail_json", !.keys = {"msg"}, !.msg = err]

\* module.fail_json(msg=err, command=cmd)
FailJson(err, c) ==
    [NoResult EXCEPT !.kind = "fail_json", !.keys = {"msg", "command"},
                     !.msg = err, !.command = c]
\* AnsibleModule's own fail_json(msg=...) on arguments it rejects
S_invalid == <<"i","n","v","a","l","i","d">>
FailArgs ==
    [NoResult EXCEPT !.kind = "fail_json", !.keys = {"msg"}, !.msg = S_invalid]
\* module.exit_json(changed=..., msg=err, command=cmd)
ExitMsg(ch, err, c) ==
    [NoResult EXCEPT !.kind = "exit_json", !.keys = {"changed", "msg", "command"},
                     !.changed = ch, !.msg = err, !.command = c]
\* module.exit_json(changed=False, command=cmd)
ExitUnchanged(c) ==
    [NoResult EXCEPT !.kind = "exit_json", !.keys = {"changed", "command"},
                     !.changed = FALSE, !.command = c]
\* module.exit_json(changed=False, branches=branches)
ExitList(brs) ==
    [NoResult EXCEPT !.kind = "exit_json", !.keys = {"changed", "branches"},
                     !.changed = FALSE, !.branches = brs]
\* module.exit_json(changed=False, command=cmd, version=out.strip())
ExitVersion(c, out) ==
    [NoResult EXCEPT !.kind = "exit_json", !.keys = {"changed", "command", "version"},
                     !.changed = FALSE, !.command = c, !.version = Strip(out)]

---------------------------------------------------------------------------
\* The external tool, which the module only drives: what `git flow <command>
\* list` prints for a repository, and what a successful start, finish or
\* checkout does to it.

S_a == <<"a">>
S_b == <<"b">>
S_g == <<"g">>
S_o == <<"o">>
S_d == <<"d">>
S_repo == <<"/","r">>
S_err == <<"e","r","r">>
S_already_msg == <<"A","l","r","e","a","d","y"," ","i","n","i","t","i","a","l","i","z","e","d"," ","f","o","r"," ","g","i","t","f","l","o","w",".","\n">>
S_already_lower == <<"a","l","r","e","a","d","y"," ","i","n","i","t","i","a","l","i","z","e","d">>
S_ver_out == <<"1",".","2","\n">>

\* the order in which the tool lists branch names
NameOrder == <<S_None, S_a, S_b>>
NoBranch == <<>>

\* run_command splits a command text into arguments at white space
RECURSIVE WordsAcc(_, _, _)
WordsAcc(s, cur, acc) ==
    IF s = <<>> THEN (IF cur = <<>> THEN acc ELSE Append(acc, cur))
    ELSE IF s[1] \in Whitespace
         THEN WordsAcc(Drop(s, 1), <<>>, IF cur = <<>> THEN acc ELSE Append(acc, cur))
         ELSE WordsAcc(Drop(s, 1), Append(cur, s[1]), acc)
Words(s) == WordsAcc(s, <<>>, <<>>)

\* stdout of `git flow <command> list`: one line per branch, the current one
\* marked "* ", the others indented by two spaces
RECURSIVE ToolListFrom(_, _)
ToolListFrom(r, i) ==
    IF i > Len(NameOrder) THEN <<>>
    ELSE (IF NameOrder[i] \in r.names
          THEN (IF r.current = NameOrder[i] THEN S_marker ELSE <<" ", " ">>)
               \o NameOrder[i] \o <<"\n">>
          ELSE <<>>) \o ToolListFrom(r, i + 1)
ToolList(r) == ToolListFrom(r, 1)

\* whether the tool can exit 0 on these arguments: start, finish and checkout
\* need a branch name; finish and checkout need the branch to exist, start
\* needs it not to
ToolAccepts(r, argv) ==
    Len(argv) >= 4 /\ argv[4] \in {S_start, S_finish, S_checkout} =>
        /\ Len(argv) >= 5
        /\ argv[5] \in {NameOrder[i] : i \in 1..Len(NameOrder)}
        /\ (argv[4] = S_start => argv[5] \notin r.names)
        /\ (argv[4] # S_start => argv[5] \in r.names)

\* the repository after the tool exited 0 on these arguments
ToolEffect(r, argv) ==
    IF Len(argv) < 5 THEN r
    ELSE IF argv[4] = S_start
         THEN [names |-> r.names \cup {argv[5]}, current |-> argv[5]]
    ELSE IF argv[4] = S_finish
         THEN [names |-> r.names \ {argv[5]},
               current |-> IF r.current = argv[5] THEN NoBranch ELSE r.current]
    ELSE IF argv[4] = S_checkout
         THEN [r EXCEPT !.current = argv[5]]
    ELSE r

Rcs == {0, 1, -9}
Stderrs == {S_empty, S_err}
InitStderrs == {S_empty, S_err, S_already_msg, S_already_lower}
VersionOuts == {S_empty, S_ver_out}

\* a spawned process: its command text, working directory, exit code, stderr
Proc(c, cwd, rc, err) == [cmd |-> c, cwd |-> cwd, rc |-> rc, err |-> err]

---------------------------------------------------------------------------
\* The task arguments and repositories the model starts from.

Commands == CommandChoices \cup {None, S_support}
Actions == ActionChoices \cup {None, S_track}
Names == {None, S_a}
Paths == {None, S_repo}
Executables == {None, S_g}
Remotes == {None, S_o}
Bases == {None, S_d}

ArgSets ==
    [path : Paths, command : Commands, action : Actions, name : Names,
     executable : Executables, remote : Remotes, base : Bases]

Repos ==
    {r \in [names : SUBSET {S_a, S_b}, current : {NoBranch, S_a, S_b}] :
        r.current = NoBranch \/ r.current \in r.names}

Init ==
    /\ args \in ArgSets
    /\ params = None
    /\ repo \in Repos
    /\ pc = "start"
    /\ cmd = None
    /\ branches = NoInventory
    /\ procs = <<>>
    /\ result = NoResult
    /\ run = 1
    /\ prevOk = FALSE

---------------------------------------------------------------------------
\* main(), cut at each run_command.

\* module = AnsibleModule(argument_spec=...)
Validate ==
    /\ pc = "start"
    /\ IF ArgSpecOk(args)
       THEN /\ params' = WithDefaults(args)
            /\ pc' = "main"
            /\ result' = result
       ELSE /\ params' = params
            /\ pc' = "done"
            /\ result' = FailArgs
    /\ UNCHANGED <<args, repo, cmd, branches, procs, run, prevOk>>

\* _gitflow_version
GitflowVersion ==
    /\ pc = "main"
    /\ params.command = S_version
    /\ \E rc \in Rcs, out \in VersionOuts, err \in Stderrs :
         LET c == Format(T_version, <<params.executable>>)
         IN  /\ procs' = Append(procs, Proc(c, None, rc, err))
             /\ result' = IF rc # 0 THEN FailJson(err, c) ELSE ExitVersion(c, out)
    /\ pc' = "done"
    /\ UNCHANGED <<args, params, repo, cmd, branches, run, prevOk>>

\* _gitflow_init
GitflowInit ==
    /\ pc = "main"
    /\ params.command = S_init
    /\ \E rc \in Rcs, err \in InitStderrs :
         LET c == Format(T_init, <<params.executable>>)
         IN  /\ procs' = Append(procs, Proc(c, params.path, rc, err))
             /\ result' = IF rc # 0 THEN FailJson(err, c)
                          ELSE IF Contains(err, S_already) THEN ExitMsg(FALSE, err, c)
                          ELSE ExitMsg(TRUE, err, c)
    /\ pc' = "done"
    /\ UNCHANGED <<args, params, repo, cmd, branches, run, prevOk>>

\* _gitflow_branch up to its own run_command: _get_cmd, _list,
\* _exit_if_unchanged and the 'list' exit
GitflowBranch ==
    /\ pc = "main"
    /\ params.command \in BranchCommands
    /\ \E rc \in Rcs, err \in Stderrs :
         LET c == _get_cmd(params.executable, params.command, params.action,
                           params.name, params.base, params.remote)
             lc == Format(T_list, <<params.executable, params.command>>)
             brs == _list(ToolList(repo))
         IN  /\ cmd' = c
             /\ procs' = Append(procs, Proc(lc, params.path, rc, err))
             /\ IF rc # 0
                THEN /\ result' = FailJson(err, lc)
                     /\ branches' = branches
                     /\ pc' = "done"
                ELSE /\ branches' = brs
                     /\ IF _exit_if_unchanged(brs, params.action, params.name)
                        THEN result' = ExitUnchanged(c) /\ pc' = "done"
                        ELSE IF params.action = S_list
                        THEN result' = ExitList(brs) /\ pc' = "done"
                        ELSE result' = result /\ pc' = "run"
    /\ UNCHANGED <<args, params, repo, run, prevOk>>

\* _gitflow_branch from its own run_command on
GitflowBranchRun ==
    /\ pc = "run"
    /\ \E rc \in Rcs, err \in Stderrs :
         /\ rc = 0 => ToolAccepts(repo, Words(cmd))
         /\ procs' = Append(procs, Proc(cmd, params.path, rc, err))
         /\ repo' = IF rc = 0 THEN ToolEffect(repo, Words(cmd)) ELSE repo
         /\ result' = IF rc # 0 THEN FailJson(err, cmd) ELSE ExitMsg(TRUE, err, cmd)
    /\ pc' = "done"
    /\ UNCHANGED <<args, params, cmd, branches, run, prevOk>>

\* the same task is run again on the repository as the last run left it
Rerun ==
    /\ pc = "done"
    /\ run < MaxRuns
    /\ run' = run + 1
    /\ prevOk' = (result.kind = "exit_json")
    /\ pc' = "start"
    /\ params' = None
    /\ cmd' = None
    /\ branches' = NoInventory
    /\ procs' = <<>>
    /\ result' = NoResult
    /\ UNCHANGED <<args, repo>>

Next ==
    \/ Validate
    \/ GitflowVersion
    \/ GitflowInit
    \/ GitflowBranch
    \/ GitflowBranchRun
    \/ Rerun

Spec == Init /\ [][Next]_vars

---------------------------------------------------------------------------
\* What the properties below speak of.

\* module.params of the task
P == WithDefaults(args)
\* the words joined by single spaces
RECURSIVE Line(_)
Line(ws) ==
    IF ws = <<>> THEN <<>>
    ELSE IF Len(ws) = 1 THEN ws[1]
    ELSE ws[1] \o <<" ">> \o Line(Tail(ws))
\* p occurs in s
HasSubstring(s, p) == \E i \in 1..(Len(s) - Len(p) + 1) : SubSeq(s, i, i + Len(p) - 1) = p

\* the task passed AnsibleModule and is a branch operation
BranchOp == ArgSpecOk(args) /\ args.command \in {S_feature, S_release, S_hotfix}
\* '<tool> flow <command> list'
ListText == Line(<<P.executable, S_flow, P.command, S_list>>)
\* the inventory read of this run succeeded
ListOk == BranchOp /\ Len(procs) >= 1 /\ procs[1].rc = 0
\* the skip conditions, on the inventory read in this run
Skip ==
    \/ args.action = S_start /\ In(args.name, branches.list)
    \/ args.action = S_finish /\ ~In(args.name, branches.list)
    \/ args.action = S_checkout /\ In(args.name, branches.current)
ChangedIs(b) ==
    result.kind = "exit_json" /\ "changed" \in result.keys /\ result.changed = b

\* C1: in a branch operation a second (mutating) process is spawned only if
\* the action is not 'list' and no skip condition holds; once the inventory
\* read succeeded with action 'list' or a skip condition, the request is over,
\* its only process is '<tool> flow <command> list' and it reports
\* changed=false.
C1_GateSkips ==
    BranchOp =>
        /\ Len(procs) >= 2 => (args.action # S_list /\ ~Skip)
        /\ (ListOk /\ (args.action = S_list \/ Skip)) =>
              /\ pc = "done"
              /\ Len(procs) = 1
              /\ procs[1].cmd = ListText
              /\ ChangedIs(FALSE)

C1_Witness ==
    /\ ListOk /\ pc = "done"
    /\ args.action = S_start /\ In(args.name, branches.list)
    /\ Len(procs) = 1 /\ ChangedIs(FALSE)

\* C2: in a branch operation whose inventory read succeeded, with an action
\* other than 'list' and no skip condition, the request goes on to spawn
\* exactly one more process, after the list call, whose text is the string
\* _get_cmd built, and reports changed=true if that process exits 0.  No
\* request spawns more than two processes.
C2_ProceedRunsOnce ==
    /\ Len(procs) <= 2
    /\ (ListOk /\ args.action # S_list /\ ~Skip) =>
          /\ pc \in {"run", "done"}
          /\ pc = "run" => Len(procs) = 1
          /\ pc = "done" =>
                /\ Len(procs) = 2
                /\ procs[1].cmd = ListText
                /\ procs[2].cmd = _get_cmd(P.executable, P.command, P.action,
                                           P.name, P.base, P.remote)
                /\ procs[2].rc = 0 => ChangedIs(TRUE)

C2_Witness ==
    /\ ListOk /\ pc = "done"
    /\ args.action = S_finish /\ In(args.name, branches.list)
    /\ Len(procs) = 2 /\ procs[2].rc = 0 /\ ChangedIs(TRUE)
    /\ procs[2].cmd = Line(<<P.executable, S_flow, P.command, S_finish, S_a>>)

\* C3: a process that exits non-zero is the last one the request spawns, and
\* the request ends at once in fail_json with that process's stderr as msg
\* and that process's command text as command, reporting no 'changed'.
C3_FailFast ==
    \A i \in 1..Len(procs) :
        procs[i].rc # 0 =>
            /\ i = Len(procs)
            /\ pc = "done"
            /\ result.kind = "fail_json"
            /\ result.keys = {"msg", "command"}
            /\ result.msg = procs[i].err
            /\ result.command = procs[i].cmd

C3_Witness ==
    /\ Len(procs) = 2 /\ procs[1].rc = 0 /\ procs[2].rc # 0
    /\ result.kind = "fail_json" /\ result.msg = S_err
    /\ result.command = procs[2].cmd /\ result.command # ListText

\* C4: with action 'pull' the command builder returns
\* '<tool> flow <command> pull <remote> <name>' (seen where the built text is
\* about to be executed).
C4_PullText ==
    (BranchOp /\ pc = "run" /\ args.action = S_pull /\ args.name # None /\ args.path # None) =>
        cmd = P.executable \o <<" ">> \o S_flow \o <<" ">> \o P.command \o <<" ">>
              \o S_pull \o <<" ">> \o P.remote \o <<" ">> \o P.name

\* C5: for hotfix start the command builder's words are '<tool> flow hotfix
\* start <name> <base>' (the base after the name); for every other command
\* and action but 'pull' its text is '<tool> flow <command> <action> <name>'.
C5_HotfixStartBase ==
    (/\ BranchOp /\ pc = "run"
     /\ args.action \notin {None, S_pull} /\ args.name # None /\ args.path # None) =>
        IF args.command = S_hotfix /\ args.action = S_start
        THEN Words(cmd) = Words(Line(<<P.executable, S_flow, S_hotfix, S_start, P.name, P.base>>))
        ELSE cmd = Line(<<P.executable, S_flow, P.command, P.action, P.name>>)

\* the task lacks a parameter that DOCUMENTATION says it requires
MissingRequired ==
    \/ args.command \in {S_feature, S_release, S_hotfix} /\ args.action = None
    \/ /\ args.command \in {S_feature, S_release, S_hotfix}
       /\ args.action \notin {None, S_list}
       /\ args.name = None
    \/ args.command \in CommandChoices \ {S_version} /\ args.path = None
\* C6: a task that lacks a required parameter (no action for feature, release
\* or hotfix; no name for an action other than 'list'; no path for a command
\* other than 'version') spawns no process and ends in fail_json.
C6_ValidationFirst ==
    MissingRequired =>
        /\ procs = <<>>
        /\ pc = "done" => result.kind = "fail_json"

\* C7: after a run of a start, finish or checkout task that ended in
\* exit_json, the next run of the same task spawns no process after the
\* inventory read and, when that read succeeds, reports changed=false.
C7_RerunNoOp ==
    (/\ run >= 2 /\ prevOk
     /\ args.command \in {S_feature, S_release, S_hotfix}
     /\ args.action \in {S_start, S_finish, S_checkout}) =>
        /\ pc # "run"
        /\ Len(procs) <= 1
        /\ (pc = "done" /\ Len(procs) = 1 /\ procs[1].rc = 0) => ChangedIs(FALSE)

\* C7 for the tasks that carry a name
C7_RerunNoOpNamed == args.name # None => C7_RerunNoOp

\* C8: command init spawns exactly one process, '<tool> flow init -d'; when
\* it exits 0 the result is changed=false if and only if its stderr contains
\* 'Already initialized', and changed=true otherwise.
C8_InitChanged ==
    (ArgSpecOk(args) /\ args.command = S_init /\ pc = "done") =>
        /\ Len(procs) = 1
        /\ procs[1].cmd = P.executable \o <<" ","f","l","o","w"," ","i","n","i","t"," ","-","d">>
        /\ procs[1].rc = 0 =>
              /\ result.kind = "exit_json" /\ "changed" \in result.keys
              /\ result.changed = ~HasSubstring(procs[1].err, S_already)

C8_Witness ==
    /\ args.command = S_init /\ pc = "done"
    /\ Len(procs) = 1 /\ procs[1].rc = 0 /\ procs[1].err = S_already_msg
    /\ ChangedIs(FALSE)

\* C9: a task with command feature, release or hotfix, action 'track' and a
\* name passes AnsibleModule and executes '<tool> flow <command> track <name>'.
C9_TrackAccepted ==
    (/\ args.command \in {S_feature, S_release, S_hotfix}
     /\ args.action = S_track /\ args.name # None /\ args.path # None
     /\ pc = "done") =>
        /\ result # FailArgs
        /\ \E i \in 1..Len(procs) :
              procs[i].cmd = Line(<<P.executable, S_flow, P.command, S_track, P.name>>)

\* C10: every result of a task carries a 'command' field (stated for the
\* tasks that give a path and pass AnsibleModule, whose results come from the
\* module's own exit_json and fail_json calls).
C10_ResultHasCommand ==
    (ArgSpecOk(args) /\ args.path # None /\ pc = "done") => "command" \in result.keys

====
